---- MODULE Spec2Model ----
(***************************************************************************)
(* Model of the beacon-chain indexer (package indexer): the slot cache,    *)
(* the reorg walk of processHeadBlock, the head poll / backfill / stream   *)
(* ingestion loop, the epoch-stats cache with its validator-set loader     *)
(* goroutines, and the processing frontier.                                *)
(***************************************************************************)
EXTENDS Integers, Sequences, FiniteSets, TLC

\* ------------------------------------------------------------------------
\* Bounds of the model
\* ------------------------------------------------------------------------
\* highest slot the beacon node serves a block for
MaxSlot == 5
\* largest epochProcessingDelay the indexer is constructed with
MaxDelay == 1
\* largest wall-clock epoch at which the indexer is started
MaxBootEpoch == 2
\* number of events the loop of runIndexer takes from its channels
MaxEvents == 2
\* number of goroutines that call Start
MaxCallers == 3
\* largest inMemoryEpochs an Indexer is built with when the cleanup is checked
MaxInMemoryEpochs == 2

\* utils.Config.Chain.Config.SlotsPerEpoch
SlotsPerEpoch == 2
\* inMemoryEpochs given to NewIndexer
InMemoryEpochs == 1

Slots == 0..MaxSlot
EpochOfSlot(slot) == slot \div SlotsPerEpoch
Epochs == 0..EpochOfSlot(MaxSlot)

\* a nil []byte
NilRoot == 0
\* the all-zero parent root of the genesis block
ZeroRoot == 99

\* ------------------------------------------------------------------------
\* The blocks the beacon node can serve: a main chain G-A-B-C-Y, a sibling
\* B2 of B with child C2, a block X that skips two slots back to A and a
\* block Z that skips one slot back to B.
\* ------------------------------------------------------------------------
Hdr(slot, root, parent) == [Slot |-> slot, Root |-> root, ParentRoot |-> parent]

Universe ==
    { Hdr(0, 1, ZeroRoot),
      Hdr(1, 2, 1),
      Hdr(2, 3, 2), Hdr(2, 4, 2),
      Hdr(3, 5, 3), Hdr(3, 6, 4),
      Hdr(4, 7, 2), Hdr(4, 9, 3),
      Hdr(5, 8, 5) }

\* the blocks the node serves to the ingestion loop
ServedRoots == {1, 2, 3, 5, 9, 8}
Served == {h \in Universe : h.Root \in ServedRoots}

NoHeader == [Slot |-> 0, Root |-> NilRoot, ParentRoot |-> NilRoot]

\* &BlockInfo{Header: header, Block: block}: Orphaned is false at creation
NewBlockInfo(header) ==
    [Slot |-> header.Slot, Root |-> header.Root,
     ParentRoot |-> header.ParentRoot, Orphaned |-> FALSE]

\* ------------------------------------------------------------------------
\* processHeadBlock, computed as the code computes it.  cb is the map
\* cachedBlocks; a slot without key is the empty sequence.
\* ------------------------------------------------------------------------

\* a duplicate scan that looks at the first entry of the slot only
IsDuplicateFirstOnly(cb, slot, header) ==
    Len(cb[slot]) >= 1 /\ cb[slot][1].Root = header.Root

\* a duplicate scan that looks at the last entry of the slot only
IsDuplicateLastOnly(cb, slot, header) ==
    Len(cb[slot]) >= 1 /\ cb[slot][Len(cb[slot])].Root = header.Root

\* lines 349-354: the duplicate scan of one slot
IsDuplicate(cb, slot, header) ==
    \E bidx \in 1..Len(cb[slot]) : cb[slot][bidx].Root = header.Root

\* lines 344-356: create the one-element list or append
PutBlock(cb, slot, header) ==
    [cb EXCEPT ![slot] = Append(cb[slot], NewBlockInfo(header))]

\* lines 358-360
NewLowest(lowest, slot) ==
    IF lowest = 0 \/ slot < lowest THEN slot ELSE lowest

\* a scan that leaves the slot list as soon as it has found the base
RECURSIVE ScanForBaseStops(_, _, _, _)
ScanForBaseStops(blocks, bidx, header, baseIndex) ==
    IF bidx > Len(blocks) \/ baseIndex # 0
    THEN [blocks |-> blocks, baseIndex |-> baseIndex]
    ELSE IF blocks[bidx].Root = header.Root
         THEN ScanForBaseStops(blocks, bidx + 1, header, baseIndex)
         ELSE IF blocks[bidx].Root = header.ParentRoot
              THEN ScanForBaseStops(blocks, bidx + 1, header, bidx)
              ELSE ScanForBaseStops([blocks EXCEPT ![bidx].Orphaned = TRUE],
                                    bidx + 1, header, baseIndex)

\* lines 373-386: the scan of one slot list in the reorg-base walk.
\* Returns the list with its flags updated and the index of the base (0 if
\* this slot does not hold it).
RECURSIVE ScanForBase(_, _, _, _)
ScanForBase(blocks, bidx, header, baseIndex) ==
    IF bidx > Len(blocks)
    THEN [blocks |-> blocks, baseIndex |-> baseIndex]
    ELSE IF blocks[bidx].Root = header.Root
         THEN ScanForBase(blocks, bidx + 1, header, baseIndex)
         ELSE IF blocks[bidx].Root = header.ParentRoot
              THEN ScanForBase(blocks, bidx + 1, header, bidx)
              ELSE ScanForBase([blocks EXCEPT ![bidx].Orphaned = TRUE],
                               bidx + 1, header, baseIndex)

\* lines 368-390: for sidx := slot; sidx >= lowestCachedSlot; sidx--.
\* sidx is a uint64: when slot 0 has been scanned without finding the base
\* and lowestCachedSlot is 0, sidx-- wraps to 2^64-1, which is still >=
\* lowestCachedSlot; the walk then comes down through every slot again
\* (wrapped = TRUE; slots above MaxSlot hold nothing) and, if the base is
\* nowhere, passes slot 0 a second time and so on for ever (hung).
RECURSIVE FindReorgBase(_, _, _, _, _)
\* lines 387-389 and the sidx-- of line 368, after the scan of slot sidx
FindReorgBaseNext(cb2, sidx, lowest, header, wrapped, baseIndex) ==
    IF baseIndex # 0
    THEN [cb |-> cb2, found |-> TRUE, baseSlot |-> sidx,
          baseIndex |-> baseIndex, hung |-> FALSE]
    ELSE IF sidx = 0
         THEN IF wrapped
              THEN [cb |-> cb2, found |-> FALSE, baseSlot |-> 0,
                    baseIndex |-> 0, hung |-> TRUE]
              ELSE FindReorgBase(cb2, MaxSlot, lowest, header, TRUE)
         ELSE FindReorgBase(cb2, sidx - 1, lowest, header, wrapped)

\* lines 369-386: the scan r of slot sidx written back to the map
FindReorgBaseScanned(cb, sidx, lowest, header, wrapped, r) ==
    FindReorgBaseNext([cb EXCEPT ![sidx] = r.blocks], sidx, lowest, header,
                      wrapped, r.baseIndex)

FindReorgBase(cb, sidx, lowest, header, wrapped) ==
    IF sidx < lowest
    THEN [cb |-> cb, found |-> FALSE, baseSlot |-> 0, baseIndex |-> 0,
          hung |-> FALSE]
    ELSE FindReorgBaseScanned(cb, sidx, lowest, header, wrapped,
                              ScanForBase(cb[sidx], 1, header, 0))

\* lines 413-429: the scan of one slot list in the re-canonicalization
\* walk.  ob = <<slot, index>> of orphanedBlock; it moves to the block whose
\* root is the parent root of the current orphanedBlock.
RECURSIVE ScanForParent(_, _, _, _, _, _)
ScanForParent(cb, sidx, bidx, ob, found, parentRoot) ==
    IF bidx > Len(cb[sidx])
    THEN [cb |-> cb, ob |-> ob, found |-> found, parentRoot |-> parentRoot]
    ELSE IF cb[sidx][bidx].Root = parentRoot
         THEN ScanForParent(cb, sidx, bidx + 1, <<sidx, bidx>>,
                            found \/ ~cb[sidx][bidx].Orphaned,
                            cb[sidx][bidx].ParentRoot)
         ELSE ScanForParent([cb EXCEPT ![sidx][bidx].Orphaned = TRUE],
                            sidx, bidx + 1, ob, found, parentRoot)

\* lines 408-433: for sidx := reorgBaseSlot - 1; sidx >= lowestCachedSlot; sidx--
\* (the same uint64 wrap as above when slot 0 is passed with lowest = 0)
RECURSIVE WalkAncestors(_, _, _, _, _)
\* lines 430-432 and the sidx-- of line 408, after the scan r of slot sidx
WalkAncestorsNext(sidx, lowest, wrapped, r) ==
    IF r.found
    THEN [cb |-> r.cb, ob |-> r.ob, found |-> TRUE, hung |-> FALSE]
    ELSE IF sidx = 0
         THEN IF wrapped
              THEN [cb |-> r.cb, ob |-> r.ob, found |-> FALSE, hung |-> TRUE]
              ELSE WalkAncestors(r.cb, MaxSlot, lowest, r.ob, TRUE)
         ELSE WalkAncestors(r.cb, sidx - 1, lowest, r.ob, wrapped)

WalkAncestors(cb, sidx, lowest, ob, wrapped) ==
    IF sidx < lowest
    THEN [cb |-> cb, ob |-> ob, found |-> FALSE, hung |-> FALSE]
    ELSE WalkAncestorsNext(sidx, lowest, wrapped,
                           ScanForParent(cb, sidx, 1, ob, FALSE,
                                         cb[ob[1]][ob[2]].ParentRoot))

\* lines 401-438: for orphanedBlock.Orphaned { ... }.  The loop test reads
\* the flag of the block orphanedBlock points at after the walk.  When a
\* pass leaves orphanedBlock where it was and its flag set again (the walk
\* passed it and marked it), the next pass is identical: the loop never ends.
RECURSIVE FixOrphaned(_, _, _, _, _)
\* lines 435-437 and the loop test of line 401, after the walk w of one pass
FixOrphanedNext(ob, baseSlot, lowest, resync, w) ==
    IF w.hung \/ (w.ob = ob /\ w.cb[ob[1]][ob[2]].Orphaned)
    THEN [cb |-> w.cb, resyncNeeded |-> resync \/ ~w.found, hung |-> TRUE]
    ELSE FixOrphaned(w.cb, w.ob, baseSlot, lowest, resync \/ ~w.found)

FixOrphaned(cb, ob, baseSlot, lowest, resync) ==
    IF ~cb[ob[1]][ob[2]].Orphaned
    THEN [cb |-> cb, resyncNeeded |-> resync, hung |-> FALSE]
    ELSE FixOrphanedNext(ob, baseSlot, lowest, resync,
            WalkAncestors([cb EXCEPT ![ob[1]][ob[2]].Orphaned = FALSE],
                          IF baseSlot = 0 THEN MaxSlot ELSE baseSlot - 1,
                          lowest, ob, FALSE))

\* a reorg test that does not look at the parent root
IsReorgWithoutParentTest(lastRoot, header) == lastRoot # NilRoot

\* line 363: the reorg test
IsReorg(lastRoot, header) ==
    lastRoot # NilRoot /\ lastRoot # header.ParentRoot

\* lines 392-438, after the reorg-base walk f
ResolveReorgFrom(lowest, f) ==
    IF f.hung
    THEN [cb |-> f.cb, resyncNeeded |-> FALSE, hung |-> TRUE,
          baseFound |-> FALSE, baseOrphaned |-> FALSE]
    ELSE IF ~f.found
         THEN [cb |-> f.cb, resyncNeeded |-> TRUE, hung |-> FALSE,
               baseFound |-> FALSE, baseOrphaned |-> FALSE]
         ELSE FixOrphaned(f.cb, <<f.baseSlot, f.baseIndex>>, f.baseSlot,
                          lowest, FALSE)
              @@ [baseFound |-> TRUE,
                  baseOrphaned |-> f.cb[f.baseSlot][f.baseIndex].Orphaned]

\* lines 363-445: the reorg resolution on the cache that already holds the
\* new block.
ResolveReorg(cb, lowest, header) ==
    ResolveReorgFrom(lowest,
                     FindReorgBase(cb, header.Slot, lowest, header, FALSE))

\* lines 446-449 after a reorg resolution r; a walk that never ends leaves
\* the head where it was
AfterReorg(st, header, lowest, r) ==
    [cachedBlocks |-> r.cb, lowestCachedSlot |-> lowest,
     lastHeadBlock |-> IF r.hung THEN st.lastHeadBlock ELSE header.Slot,
     lastHeadRoot |-> IF r.hung THEN st.lastHeadRoot ELSE header.Root,
     ret |-> IF r.hung THEN "hung" ELSE "ok", reorg |-> TRUE,
     baseFound |-> r.baseFound, baseOrphaned |-> r.baseOrphaned,
     resyncNeeded |-> r.resyncNeeded]

\* lines 358-449, on the cache cb1 that holds the new block
AfterPut(st, header, cb1, lowest) ==
    IF ~IsReorg(st.lastHeadRoot, header)
    THEN [cachedBlocks |-> cb1, lowestCachedSlot |-> lowest,
          lastHeadBlock |-> header.Slot, lastHeadRoot |-> header.Root,
          ret |-> "ok", reorg |-> FALSE, baseFound |-> FALSE,
          baseOrphaned |-> FALSE, resyncNeeded |-> FALSE]
    ELSE AfterReorg(st, header, lowest, ResolveReorg(cb1, lowest, header))

\* lines 336-450.  st holds the four fields of indexerState the function
\* touches; the result adds what the call did: ret is "dup" (returned nil
\* at line 352), "ok" (returned blockInfo) or "hung" (never returned).
ProcessHeadBlockOn(st, header) ==
    IF IsDuplicate(st.cachedBlocks, header.Slot, header)
    THEN [cachedBlocks |-> st.cachedBlocks,
          lowestCachedSlot |-> st.lowestCachedSlot,
          lastHeadBlock |-> st.lastHeadBlock,
          lastHeadRoot |-> st.lastHeadRoot,
          ret |-> "dup", reorg |-> FALSE, baseFound |-> FALSE,
          baseOrphaned |-> FALSE, resyncNeeded |-> FALSE]
    ELSE AfterPut(st, header,
                  PutBlock(st.cachedBlocks, header.Slot, header),
                  NewLowest(st.lowestCachedSlot, header.Slot))

\* ------------------------------------------------------------------------
\* State
\* ------------------------------------------------------------------------
VARIABLES
    cachedBlocks,         \* indexerState.cachedBlocks: slot -> list of BlockInfo
    lowestCachedSlot,     \* indexerState.lowestCachedSlot
    lastHeadBlock,        \* indexerState.lastHeadBlock
    lastHeadRoot,         \* indexerState.lastHeadRoot (NilRoot = nil)
    lastProcessedEpoch,   \* indexerState.lastProcessedEpoch
    epochStats,           \* indexerState.epochStats: epoch -> EpochStats or NoStats
    validatorsMutex,      \* per epoch, EpochValidators.ValidatorsMutex
    loader,               \* per epoch, the loadEpochStats goroutine
    cacheMutex,           \* indexerState.cacheMutex: who holds it between steps
    epochProcessingDelay, \* Indexer.epochProcessingDelay
    writeDb,              \* Indexer.writeDb
    inMemoryEpochs,       \* Indexer.inMemoryEpochs
    synchronizer,         \* Indexer.synchronizer: "nil", or whether it runs
    controlMutex,         \* Indexer.controlMutex: the caller of Start that holds it, or 0
    running,              \* Indexer.running
    spawned,              \* number of runIndexer goroutines Start has spawned
    runMutex,             \* Indexer.runMutex: number of goroutines inside runIndexer
    caller,               \* per caller of Start, where it stands in Start
    reader,               \* the frontend accessor call in progress
    pc,                   \* where the runIndexer goroutine stands
    poll,                 \* the poll in progress: its header and backfill slot
    procEpoch,            \* the epoch processEpoch was called with
    headEpoch,            \* the processHeadEpoch call that is taken line by line
    events,               \* number of events the loop has taken so far
    parentsCached,        \* history: every insert so far, but the first, found
                          \* the parent of its block in the cache
    last                  \* what the step that led here did to the slot cache

vars == <<cachedBlocks, lowestCachedSlot, lastHeadBlock, lastHeadRoot,
          lastProcessedEpoch, epochStats, validatorsMutex, loader, cacheMutex,
          epochProcessingDelay, writeDb, inMemoryEpochs, synchronizer,
          controlMutex, running, spawned, runMutex, caller, reader, pc, poll, procEpoch,
          headEpoch, events, parentsCached, last>>

slotCache == <<cachedBlocks, lowestCachedSlot, lastHeadBlock, lastHeadRoot>>
cacheVars == <<slotCache, parentsCached>>
epochVars == <<epochStats, validatorsMutex, loader>>
\* the fields NewIndexer sets and nothing writes afterwards
config == <<epochProcessingDelay, writeDb, inMemoryEpochs>>
\* what Start and the entry of runIndexer write
lifecycle == <<controlMutex, running, spawned, runMutex, caller>>
\* what the ingestion loop (but for line 197) and the loader goroutines
\* leave alone
outside == <<config, lifecycle, reader, synchronizer, headEpoch>>

\* a uint64 value no slot or epoch of the model comes near (2^64-1 .. 2^64-k)
Uint64Top == 1000000
\* a - b on uint64
Uint64Sub(a, b) == IF a >= b THEN a - b ELSE Uint64Top - (b - a) + 1

NoStats == [dependendRoot |-> NilRoot, Assignments |-> "absent",
            AssignmentsMutex |-> "unlocked"]
\* no call of processHeadEpoch stands between its lines
NoHeadEpoch == [at |-> "idle", epoch |-> 0, dependentRoot |-> NilRoot,
                assignments |-> "absent", loadStats |-> FALSE]
\* EpochAssignments.DependendRoot as GetEpochAssignments reports it
AssignmentsDependendRoot == 11
\* the dependent roots a head event can carry: one that differs from the
\* root of the assignments, so that a head event replaces the EpochStats a
\* poll has created and a second head event finds its own root (line 496)
DepRoots == {12}

NoPoll == [kind |-> "none", header |-> NoHeader, backfillSlot |-> 0, boot |-> FALSE]
NoCall == [op |-> "none", header |-> NoHeader, ret |-> "none", reorg |-> FALSE,
           baseFound |-> FALSE, baseOrphaned |-> FALSE, resyncNeeded |-> FALSE,
           afterMissed |-> FALSE, db |-> "none", checkpoint |-> FALSE,
           sync |-> "none", syncEpoch |-> 0]

\* the goroutines that call Start
Callers == 1..MaxCallers
NoReader == [op |-> "none", latch |-> FALSE]
\* Start (lines 76-88) has returned nil once and its goroutine has entered
\* runIndexer (lines 169-171); no frontend call is in progress
Started ==
    /\ controlMutex = 0
    /\ running = TRUE
    /\ spawned = 1
    /\ runMutex = 1
    /\ caller = [c \in Callers |-> "idle"]
    /\ reader = NoReader

\* some cached block has this root
IsCached(cb, root) ==
    \E s \in Slots : \E i \in 1..Len(cb[s]) : cb[s][i].Root = root
CacheEmpty(cb) == \A s \in Slots : cb[s] = <<>>

State == [cachedBlocks |-> cachedBlocks, lowestCachedSlot |-> lowestCachedSlot,
          lastHeadBlock |-> lastHeadBlock, lastHeadRoot |-> lastHeadRoot]

\* NewIndexer (lines 63-74) and Go's zero values
NewIndexer ==
    /\ cachedBlocks = [s \in Slots |-> <<>>]
    /\ lowestCachedSlot = 0
    /\ lastHeadBlock = 0
    /\ lastHeadRoot = NilRoot
    /\ lastProcessedEpoch = 0
    /\ epochStats = [e \in Epochs |-> NoStats]
    /\ validatorsMutex = [e \in Epochs |-> "none"]
    /\ loader = [e \in Epochs |-> "none"]
    /\ cacheMutex = "free"
    /\ epochProcessingDelay \in 0..MaxDelay
    /\ writeDb \in BOOLEAN
    /\ inMemoryEpochs = InMemoryEpochs
    /\ synchronizer = "nil"
    /\ headEpoch = NoHeadEpoch
    /\ pc = "boot"
    /\ poll = NoPoll
    /\ procEpoch = 0
    /\ events = 0
    /\ parentsCached = TRUE
    /\ last = NoCall

\* the indexer with persistence on, once Start has returned and runIndexer
\* holds runMutex.  (Without writeDb the loop takes the same steps, with
\* lines 620-647 and the body of line 197 left out.)
Init == NewIndexer /\ Started /\ writeDb

\* ------------------------------------------------------------------------
\* Start and the entry of runIndexer
\* ------------------------------------------------------------------------

\* a mutex that is granted to whoever asks
MutexFreeAlways(m) == TRUE

\* sync.Mutex.Lock is granted when nobody holds the mutex (0)
MutexFree(m) == m = 0

\* line 77: caller c enters Start
StartLock(c) ==
    /\ caller[c] = "idle"
    /\ MutexFree(controlMutex)
    /\ controlMutex' = c
    /\ caller' = [caller EXCEPT ![c] = "locked"]
    /\ UNCHANGED <<running, spawned, runMutex>>

\* lines 80-82: the test of the running flag; the error return runs the
\* deferred unlock of line 78
StartTest(c) ==
    /\ caller[c] = "locked"
    /\ IF running
       THEN /\ caller' = [caller EXCEPT ![c] = "error"]
            /\ controlMutex' = 0
       ELSE /\ caller' = [caller EXCEPT ![c] = "passed"]
            /\ UNCHANGED controlMutex
    /\ UNCHANGED <<running, spawned, runMutex>>

\* lines 83-87: the flag is set, the goroutine is created and Start returns
\* nil through the deferred unlock
StartSpawn(c) ==
    /\ caller[c] = "passed"
    /\ running' = TRUE
    /\ spawned' = spawned + 1
    /\ caller' = [caller EXCEPT ![c] = "nil"]
    /\ controlMutex' = 0
    /\ UNCHANGED runMutex

\* Start (lines 76-88), step by step; it touches nothing but the lifecycle
\* fields
Start ==
    /\ \E c \in Callers : StartLock(c) \/ StartTest(c) \/ StartSpawn(c)
    /\ UNCHANGED <<cacheVars, lastProcessedEpoch, epochVars, cacheMutex,
                   config, synchronizer, headEpoch, reader, pc, poll,
                   procEpoch, events, parentsCached, last>>

\* lines 170-171: a goroutine created by Start takes runMutex, which the
\* loop never gives back; a second goroutine would wait here for ever
RunIndexerEnter ==
    /\ spawned >= 1
    /\ MutexFree(runMutex)
    /\ runMutex' = 1
    /\ UNCHANGED <<cacheVars, lastProcessedEpoch, epochVars, cacheMutex,
                   config, synchronizer, headEpoch, controlMutex, running,
                   spawned, caller, reader, pc, poll, procEpoch, events,
                   parentsCached, last>>

\* ------------------------------------------------------------------------
\* processHeadEpoch / newEpochStats
\* ------------------------------------------------------------------------

\* rpcClient.GetEpochAssignments, whose code is not part of the sources: as
\* the fetches of the client do, it returns the assignments, or nil together
\* with an error
GetEpochAssignments(fetchOk) == IF fetchOk THEN "set" ELSE "nil"

\* lines 452-486 with newEpochStats (488-518) inlined.  dependentRoot is
\* NilRoot for a nil argument; fetchOk is the outcome of the one call of
\* GetEpochAssignments the function makes.  The result is the new
\* <<epochStats, validatorsMutex, loader>> and whether the function
\* panicked (line 463 dereferences the nil assignments of a failed fetch).
ProcessHeadEpochOn(es, vm, ld, lpe, epoch, dependentRoot, fetchOk) ==
    LET same == [epochStats |-> es, validatorsMutex |-> vm, loader |-> ld,
                 panic |-> FALSE]
    IN IF dependentRoot = NilRoot /\ es[epoch] # NoStats
       THEN same
       ELSE IF dependentRoot = NilRoot /\ GetEpochAssignments(fetchOk) = "nil"
       THEN [same EXCEPT !.panic = TRUE]
       ELSE LET dep == IF dependentRoot = NilRoot
                       THEN AssignmentsDependendRoot ELSE dependentRoot
                old == es[epoch]
            IN IF epoch < lpe
               THEN same
               ELSE IF old # NoStats /\ old.dependendRoot = dep
               THEN same
               ELSE [epochStats |->
                        [es EXCEPT ![epoch] =
                            [dependendRoot |-> dep,
                             Assignments |-> GetEpochAssignments(fetchOk),
                             AssignmentsMutex |-> "unlocked"]],
                     validatorsMutex |->
                        IF old = NoStats THEN [vm EXCEPT ![epoch] = "locked"]
                        ELSE vm,
                     loader |->
                        IF old = NoStats
                        THEN [ld EXCEPT ![epoch] =
                                 IF GetEpochAssignments(fetchOk) = "nil"
                                 THEN "nilAssignments" ELSE "fetch"]
                        ELSE ld,
                     panic |-> FALSE]

\* ------------------------------------------------------------------------
\* The runIndexer goroutine
\* ------------------------------------------------------------------------

\* lines 176-184: the bootstrap from the wall clock.  bootEpoch is
\* utils.TimeToEpoch(now); started is "now is after genesis".
Boot ==
    /\ pc = "boot"
    /\ runMutex = 1
    /\ \E started \in BOOLEAN, bootEpoch \in 0..MaxBootEpoch :
         /\ lastHeadBlock' =
              IF started /\ bootEpoch > inMemoryEpochs
              THEN (bootEpoch - inMemoryEpochs + 1) * SlotsPerEpoch - 1
              ELSE lastHeadBlock
         /\ lastProcessedEpoch' =
              IF started /\ bootEpoch > epochProcessingDelay
              THEN bootEpoch - epochProcessingDelay
              ELSE lastProcessedEpoch
    /\ pc' = "bootPoll"
    /\ last' = NoCall
    /\ UNCHANGED <<cachedBlocks, lowestCachedSlot, lastHeadRoot, epochVars,
                   cacheMutex, outside, poll, procEpoch, events,
                   parentsCached>>

\* where a poll that ends goes on: the first poll (line 187) is followed by
\* the check of the sync state (line 196), a poll made by the loop by
\* processIndexing (line 237)
AfterPoll(boot) == IF boot THEN "syncCheck" ELSE "indexing"

\* a backfill that leaves out the first missing slot
FirstBackfillSlotSkipping(lastHead, slot) ==
    IF lastHead < Uint64Sub(slot, 1) THEN lastHead + 2 ELSE slot

\* lines 273-275 / 322-324: the first slot to backfill.  With
\* lastHeadBlock >= slot-1 (uint64) the loop is skipped, which is the same
\* as starting it at `slot`.
FirstBackfillSlot(lastHead, slot) ==
    IF lastHead < Uint64Sub(slot, 1) THEN lastHead + 1 ELSE slot

\* pollHeadBlock, lines 259-279: the two fetches and the start of the
\* backfill.  Called at line 187 (boot), 225 (stream closed) and 230 (timer).
PollHeadFetch(boot) ==
    \/ \* GetLatestBlockHead or GetBlockBodyByBlockroot failed
       /\ pc' = AfterPoll(boot)
       /\ poll' = NoPoll
    \/ \E header \in Served :
         IF header.Root = lastHeadRoot
         THEN /\ pc' = AfterPoll(boot)
              /\ poll' = NoPoll
         ELSE /\ pc' = "backfill"
              /\ poll' = [kind |-> "head", header |-> header,
                          backfillSlot |->
                              FirstBackfillSlot(lastHeadBlock, header.Slot),
                          boot |-> boot]

BootPoll ==
    /\ pc = "bootPoll"
    /\ PollHeadFetch(TRUE)
    /\ last' = NoCall
    /\ UNCHANGED <<cacheVars, lastProcessedEpoch, epochVars, cacheMutex,
                   outside, procEpoch, events>>

\* newSynchronizer, whose code is not part of the sources: a synchronizer
\* that runs no task yet
NewSynchronizer == [running |-> FALSE, cursor |-> 0]

\* synchronizer.isEpochAhead, whose code is not part of the sources: a
\* running synchronizer is ahead when its cursor has reached the epoch
IsEpochAhead(sync, epoch) ==
    sync.running /\ sync.cursor >= epoch

\* a test that lets an up-to-date sync state through
NeedsSyncOrEqual(syncEpoch, lastProcessed) == syncEpoch <= lastProcessed

\* line 199
NeedsSync(syncEpoch, lastProcessed) == syncEpoch < lastProcessed

\* startSynchronization, lines 242-257, on an Indexer whose synchronizer is
\* nil (this call is the only one of the sources): "started" when startSync
\* was called
StartSynchronization(wdb, startEpoch) ==
    IF ~wdb THEN "off"
    ELSE IF IsEpochAhead(NewSynchronizer, startEpoch) THEN "ahead"
    ELSE "started"

\* lines 250-255: the synchronizer field after startSynchronization did
\* sync; startSync, whose code is not part of the sources, sets the running
\* flag of the synchronizer it starts
SynchronizerAfter(before, sync) ==
    IF sync = "started" THEN "running"
    ELSE IF sync = "ahead" THEN "idle"
    ELSE before

\* lines 196-203: syncEpoch is syncState.Epoch as GetExplorerState left it
\* (0 when nothing is stored)
SyncCheck ==
    /\ pc = "syncCheck"
    /\ \E syncEpoch \in 0..MaxBootEpoch :
         LET sync == IF writeDb /\ NeedsSync(syncEpoch, lastProcessedEpoch)
                     THEN StartSynchronization(writeDb, syncEpoch)
                     ELSE "none"
         IN /\ last' = [NoCall EXCEPT
                          !.op = "syncCheck",
                          !.syncEpoch = IF writeDb THEN syncEpoch ELSE 0,
                          !.sync = sync]
            /\ synchronizer' = SynchronizerAfter(synchronizer, sync)
    /\ pc' = "loop"
    /\ UNCHANGED <<cacheVars, lastProcessedEpoch, epochVars, cacheMutex,
                   config, lifecycle, reader, headEpoch, poll, procEpoch,
                   events, parentsCached>>

\* lines 221-233: the stream-closed signal and the 30 s timer both poll the
\* head; the loop is at position at when the select of line 214 receives
TimerOrCloseEventAt(at) ==
    /\ pc = at
    /\ events < MaxEvents
    /\ events' = events + 1
    /\ PollHeadFetch(FALSE)
    /\ last' = NoCall
    /\ UNCHANGED <<cacheVars, lastProcessedEpoch, epochVars, cacheMutex,
                   outside, procEpoch>>

\* the running flag never changes after Start, so the test of lines 207-212
\* passes and the loop is taken at the select
TimerOrCloseEvent == TimerOrCloseEventAt("loop")

\* lines 218-220 and pollStreamedBlock lines 311-328
BlockEventAt(at) ==
    /\ pc = at
    /\ events < MaxEvents
    /\ events' = events + 1
    /\ \/ \* GetBlockHeaderByBlockroot or GetBlockBodyByBlockroot failed
          /\ pc' = "indexing"
          /\ poll' = NoPoll
       \/ \E header \in Served :
            /\ pc' = "backfill"
            /\ poll' = [kind |-> "stream", header |-> header,
                        backfillSlot |->
                            FirstBackfillSlot(lastHeadBlock, header.Slot),
                        boot |-> FALSE]
    /\ last' = NoCall
    /\ UNCHANGED <<cacheVars, lastProcessedEpoch, epochVars, cacheMutex,
                   outside, procEpoch>>

BlockEvent == BlockEventAt("loop")

\* lines 215-217: a head event
HeadEventAt(at) ==
    /\ pc = at
    /\ ~reader.latch
    /\ events < MaxEvents
    /\ events' = events + 1
    /\ \E epoch \in Epochs, dep \in DepRoots, fetchOk \in BOOLEAN :
         LET r == ProcessHeadEpochOn(epochStats, validatorsMutex, loader,
                                     lastProcessedEpoch, epoch, dep, fetchOk)
         IN /\ epochStats' = r.epochStats
            /\ validatorsMutex' = r.validatorsMutex
            /\ loader' = r.loader
            /\ pc' = IF r.panic THEN "crashed" ELSE "indexing"
            /\ last' = IF r.panic THEN [NoCall EXCEPT !.op = "assignmentsPanic"]
                       ELSE NoCall
    /\ UNCHANGED <<cacheVars, lastProcessedEpoch, cacheMutex,
                   outside, poll, procEpoch>>

HeadEvent == HeadEventAt("loop")

\* the state after processHeadBlock has run with outcome r: a walk that
\* never ends keeps the goroutine in processHeadBlock with the exclusive
\* cache latch held
Ingested(header, r, nextPc, nextPoll, op) ==
    /\ cachedBlocks' = r.cachedBlocks
    /\ lowestCachedSlot' = r.lowestCachedSlot
    /\ lastHeadBlock' = r.lastHeadBlock
    /\ lastHeadRoot' = r.lastHeadRoot
    /\ last' = [op |-> op, header |-> header, ret |-> r.ret,
                reorg |-> r.reorg, baseFound |-> r.baseFound,
                baseOrphaned |-> r.baseOrphaned,
                resyncNeeded |-> r.resyncNeeded,
                afterMissed |-> last.op = "backfillMissed", db |-> "none",
                checkpoint |-> FALSE, sync |-> "none", syncEpoch |-> 0]
    /\ parentsCached' =
         IF r.ret = "dup" \/ CacheEmpty(cachedBlocks)
         THEN parentsCached
         ELSE parentsCached /\ IsCached(cachedBlocks, header.ParentRoot)
    /\ pc' = IF r.ret = "hung" THEN "hung" ELSE nextPc
    /\ poll' = IF r.ret = "hung" THEN poll ELSE nextPoll
    /\ cacheMutex' = IF r.ret = "hung" THEN "write" ELSE cacheMutex

\* the state after processHeadEpoch(epoch, nil) has run with outcome e,
\* followed by processHeadBlock unless it panicked
IngestedEpoch(header, e, nextPc, nextPoll, op) ==
    /\ epochStats' = e.epochStats
    /\ validatorsMutex' = e.validatorsMutex
    /\ loader' = e.loader
    /\ IF e.panic
       THEN /\ pc' = "crashed"
            /\ poll' = NoPoll
            /\ last' = [NoCall EXCEPT !.op = "assignmentsPanic"]
            /\ UNCHANGED <<cacheVars, cacheMutex>>
       ELSE Ingested(header, ProcessHeadBlockOn(State, header),
                     nextPc, nextPoll, op)

\* processHeadEpoch(epoch, nil) followed by processHeadBlock(slot, header,
\* block): lines 283-284 and 305-306; processHeadBlock alone at line 331.
\* A panic of processHeadEpoch ends the process.
Ingest(header, withEpoch, fetchOk, nextPc, nextPoll, op) ==
    IF withEpoch
    THEN IngestedEpoch(header,
                       ProcessHeadEpochOn(epochStats, validatorsMutex, loader,
                                          lastProcessedEpoch,
                                          EpochOfSlot(header.Slot), NilRoot,
                                          fetchOk),
                       nextPc, nextPoll, op)
    ELSE /\ UNCHANGED epochVars
         /\ Ingested(header, ProcessHeadBlockOn(State, header),
                     nextPc, nextPoll, op)

\* pollBackfillBlock (lines 289-309) for the next slot of the backfill loop
\* (lines 275-278 / 324-327); its result is discarded by the caller.
BackfillError ==
    /\ pc = "backfill"
    /\ poll.backfillSlot < poll.header.Slot
    /\ poll' = [poll EXCEPT !.backfillSlot = @ + 1]
    /\ last' = [NoCall EXCEPT !.op = "backfillError"]
    /\ UNCHANGED <<cacheVars, lastProcessedEpoch, epochVars, cacheMutex,
                   outside, pc, procEpoch, events>>

BackfillMissed ==
    /\ pc = "backfill"
    /\ poll.backfillSlot < poll.header.Slot
    /\ poll' = [poll EXCEPT !.backfillSlot = @ + 1]
    /\ last' = [NoCall EXCEPT !.op = "backfillMissed"]
    /\ UNCHANGED <<cacheVars, lastProcessedEpoch, epochVars, cacheMutex,
                   outside, pc, procEpoch, events>>

BackfillBlock ==
    /\ pc = "backfill"
    /\ ~reader.latch
    /\ poll.backfillSlot < poll.header.Slot
    /\ \E header \in Served, fetchOk \in BOOLEAN :
         /\ header.Slot = poll.backfillSlot
         /\ Ingest(header, TRUE, fetchOk, "backfill",
                   [poll EXCEPT !.backfillSlot = @ + 1], "backfill")
    /\ UNCHANGED <<lastProcessedEpoch, outside, procEpoch, events>>

\* the end of pollHeadBlock (lines 281-286) and of pollStreamedBlock
\* (lines 330-333): the polled block itself
InsertPolled ==
    /\ pc = "backfill"
    /\ ~reader.latch
    /\ poll.backfillSlot >= poll.header.Slot
    /\ \E fetchOk \in BOOLEAN :
         Ingest(poll.header, poll.kind = "head", fetchOk,
                AfterPoll(poll.boot), NoPoll, poll.kind)
    /\ UNCHANGED <<lastProcessedEpoch, outside, procEpoch, events>>

\* a frontier test that fires whenever the two epochs differ
NeedsProcessingOnChange(lastProcessed, processEpoch) ==
    lastProcessed # processEpoch

\* line 550
NeedsProcessing(lastProcessed, processEpoch) == lastProcessed < processEpoch

\* processIndexing, lines 546-554, up to the wait of processEpoch at line
\* 591.  processEpoch takes the shared latch and dereferences
\* epochStats[epoch]: a nil entry panics.
ProcessIndexing ==
    /\ pc = "indexing"
    /\ LET currentEpoch == EpochOfSlot(lastHeadBlock)
           processEpoch == Uint64Sub(currentEpoch, epochProcessingDelay)
       IN IF NeedsProcessing(lastProcessedEpoch, processEpoch)
          THEN IF processEpoch \in Epochs /\ epochStats[processEpoch] # NoStats
               THEN /\ pc' = "epochWait"
                    /\ procEpoch' = processEpoch
                    /\ cacheMutex' = "read"
               ELSE /\ pc' = "crashed"
                    /\ UNCHANGED <<procEpoch, cacheMutex>>
          ELSE /\ pc' = "loop"
               /\ UNCHANGED <<procEpoch, cacheMutex>>
    /\ last' = NoCall
    /\ UNCHANGED <<cacheVars, lastProcessedEpoch, epochVars,
                   outside, poll, events>>

\* lines 594-616: some block of the epoch is not orphaned, so epochTarget
\* is set
EpochTargetFound(cb, epoch) ==
    \E slot \in Slots :
        /\ EpochOfSlot(slot) = epoch
        /\ \E bidx \in 1..Len(cb[slot]) : ~cb[slot][bidx].Orphaned

\* lines 613-647: how processEpoch can end.  "noTarget" returns at line 615;
\* without writeDb nothing is written; Beginx can fail (line 625); an error
\* of persistEpochData is logged at line 631 and the function goes on to
\* the commit, which can fail (line 645) or succeed.
DbOutcomes(wdb, targetFound) ==
    IF ~targetFound THEN {"noTarget"}
    ELSE IF ~wdb THEN {"notWritten"}
    ELSE {"beginFailed", "commitFailed", "persistFailedCommitFailed",
          "committed", "persistFailedCommitted"}

\* line 634
SetsSyncState(sync) == sync = "nil" \/ sync # "running"

\* lines 634-646: whether the transaction left "indexer.syncstate" at the
\* epoch.  SetExplorerState runs when line 634 lets it, whatever
\* persistEpochData returned; it can fail itself (line 639), and what it
\* wrote is kept when Commit succeeded.
CheckpointOutcomes(db, sync) ==
    IF db \in {"committed", "persistFailedCommitted"} /\ SetsSyncState(sync)
    THEN {TRUE, FALSE}
    ELSE {FALSE}

\* processEpoch from line 591 on, and line 552
ProcessEpochDone ==
    /\ pc = "epochWait"
    /\ validatorsMutex[procEpoch] = "unlocked"
    /\ \E db \in DbOutcomes(writeDb, EpochTargetFound(cachedBlocks, procEpoch)) :
         \E checkpoint \in CheckpointOutcomes(db, synchronizer) :
            /\ lastProcessedEpoch' = procEpoch
            /\ last' = [NoCall EXCEPT !.op = "epochProcessed", !.db = db,
                                      !.checkpoint = checkpoint]
    /\ procEpoch' = 0
    /\ cacheMutex' = "free"
    /\ pc' = "loop"
    /\ UNCHANGED <<cacheVars, epochVars, outside, poll, events>>

\* ------------------------------------------------------------------------
\* The loadEpochStats goroutines (lines 520-544)
\* ------------------------------------------------------------------------

\* line 522 / 525 with nil Assignments: a nil dereference; the deferred
\* unlock runs and the process dies
LoaderPanic(e) ==
    /\ pc \notin {"crashed"}
    /\ loader[e] = "nilAssignments"
    /\ loader' = [loader EXCEPT ![e] = "done"]
    /\ validatorsMutex' = [validatorsMutex EXCEPT ![e] = "unlocked"]
    /\ pc' = "crashed"
    /\ last' = [NoCall EXCEPT !.op = "loaderPanic"]
    /\ UNCHANGED <<cacheVars, lastProcessedEpoch, epochStats, cacheMutex,
                   outside, poll, procEpoch, events>>

\* line 525 failed: lines 526-527 and the deferred unlock of line 521
LoaderFetchFailed(e) ==
    /\ pc \notin {"crashed"}
    /\ loader[e] = "fetch"
    /\ loader' = [loader EXCEPT ![e] = "done"]
    /\ validatorsMutex' = [validatorsMutex EXCEPT ![e] = "unlocked"]
    /\ last' = NoCall
    /\ UNCHANGED <<cacheVars, lastProcessedEpoch, epochStats, cacheMutex,
                   outside, pc, poll, procEpoch, events>>

\* line 525 succeeded: the goroutine goes on to cacheMutex.Lock() (line 529)
LoaderFetched(e) ==
    /\ pc \notin {"crashed"}
    /\ loader[e] = "fetch"
    /\ loader' = [loader EXCEPT ![e] = "lock"]
    /\ last' = NoCall
    /\ UNCHANGED <<cacheVars, lastProcessedEpoch, epochStats, validatorsMutex,
                   cacheMutex, outside, pc, poll, procEpoch, events>>

\* lines 529-543: the exclusive latch is granted only when nobody holds the
\* latch; the balances are stored and both deferred unlocks run
LoaderStore(e) ==
    /\ pc \notin {"crashed"}
    /\ loader[e] = "lock"
    /\ cacheMutex = "free"
    /\ ~reader.latch
    /\ loader' = [loader EXCEPT ![e] = "done"]
    /\ validatorsMutex' = [validatorsMutex EXCEPT ![e] = "unlocked"]
    /\ last' = NoCall
    /\ UNCHANGED <<cacheVars, lastProcessedEpoch, epochStats, cacheMutex,
                   outside, pc, poll, procEpoch, events>>

Loader == \E e \in Epochs :
    LoaderPanic(e) \/ LoaderFetchFailed(e) \/ LoaderFetched(e) \/ LoaderStore(e)

Next ==
    \/ Boot
    \/ BootPoll
    \/ SyncCheck
    \/ TimerOrCloseEvent
    \/ BlockEvent
    \/ HeadEvent
    \/ BackfillError
    \/ BackfillMissed
    \/ BackfillBlock
    \/ InsertPolled
    \/ ProcessIndexing
    \/ ProcessEpochDone
    \/ Loader

Spec == Init /\ [][Next]_vars

\* The Go scheduler runs every runnable goroutine: processEpoch goes on once
\* the latch it waits for is free, and each loadEpochStats goroutine goes on
\* (its RPC call ends, with a result or an error, within the timeout of the
\* HTTP client; the exclusive latch is granted once nobody holds the latch).
\* Nothing is assumed about the arrival of events.
LoaderStep(e) ==
    LoaderPanic(e) \/ LoaderFetchFailed(e) \/ LoaderFetched(e) \/ LoaderStore(e)

FairSpec ==
    /\ Spec
    /\ WF_vars(ProcessEpochDone)
    /\ \A e \in Epochs : WF_vars(LoaderStep(e))

\* ------------------------------------------------------------------------
\* processHeadBlock on its own: every sequence of inserts.  (The loop
\* produces any such sequence when the backfill fetches between two block
\* events fail.)
\* ------------------------------------------------------------------------
InitInserts ==
    /\ cachedBlocks = [s \in Slots |-> <<>>]
    /\ lowestCachedSlot = 0
    /\ lastHeadBlock = 0
    /\ lastHeadRoot = NilRoot
    /\ lastProcessedEpoch = 0
    /\ epochStats = [e \in Epochs |-> NoStats]
    /\ validatorsMutex = [e \in Epochs |-> "none"]
    /\ loader = [e \in Epochs |-> "none"]
    /\ cacheMutex = "free"
    /\ epochProcessingDelay = 0
    /\ writeDb = FALSE
    /\ inMemoryEpochs = InMemoryEpochs
    /\ synchronizer = "nil"
    /\ headEpoch = NoHeadEpoch
    /\ Started
    /\ pc = "insert"
    /\ poll = NoPoll
    /\ procEpoch = 0
    /\ events = 0
    /\ parentsCached = TRUE
    /\ last = NoCall

ProcessHeadBlock ==
    /\ pc = "insert"
    /\ ~reader.latch
    /\ \E header \in Universe :
         Ingest(header, FALSE, TRUE, "insert", NoPoll, "insert")
    /\ UNCHANGED <<lastProcessedEpoch, outside, procEpoch, events>>

SpecInserts == InitInserts /\ [][ProcessHeadBlock]_vars

\* ------------------------------------------------------------------------
\* processCacheCleanup (lines 556-578).  No code of the sources calls it;
\* it is put next to processHeadBlock, on an Indexer built with any
\* inMemoryEpochs from 1 to MaxInMemoryEpochs.
\* ------------------------------------------------------------------------

\* a uint64 result: Uint64Top stands for 2^64-1
Uint64Of(x) == x % (Uint64Top + 1)

\* (cleanEpoch+1)*SlotsPerEpoch of lines 562 and 565, with cleanEpoch of
\* line 561, all on uint64
CleanupThreshold(currentEpoch, inMemory) ==
    Uint64Of(Uint64Of(Uint64Sub(currentEpoch, inMemory) + 1) * SlotsPerEpoch)

\* lines 565-571: the loop that raises lowestCachedSlot to the threshold and
\* deletes the slots it passes.  No slot above MaxSlot is cached, so the
\* passes above MaxSlot only count.
RECURSIVE DropSlots(_, _, _)
DropSlots(cb, lowest, threshold) ==
    IF lowest >= threshold
    THEN [cachedBlocks |-> cb, lowestCachedSlot |-> lowest]
    ELSE IF lowest > MaxSlot
         THEN [cachedBlocks |-> cb, lowestCachedSlot |-> threshold]
         ELSE DropSlots([cb EXCEPT ![lowest] = <<>>], lowest + 1, threshold)

\* lines 572-576: the entry of cleanEpoch leaves the map
DropStats(es, cleanEpoch) ==
    IF cleanEpoch \in Epochs THEN [es EXCEPT ![cleanEpoch] = NoStats] ELSE es

\* lines 102-116: nothing below lowestCachedSlot is returned
GetCachedBlocks(cb, lowest, slot) ==
    IF slot < lowest THEN <<>> ELSE cb[slot]

\* lines 556-578
ProcessCacheCleanup ==
    /\ pc = "insert"
    /\ ~reader.latch
    /\ LET currentEpoch == EpochOfSlot(lastHeadBlock)
           threshold == CleanupThreshold(currentEpoch, inMemoryEpochs)
           dropped == DropSlots(cachedBlocks, lowestCachedSlot, threshold)
       IN IF lowestCachedSlot < threshold
          THEN /\ cachedBlocks' = dropped.cachedBlocks
               /\ lowestCachedSlot' = dropped.lowestCachedSlot
               /\ epochStats' =
                    DropStats(epochStats,
                              Uint64Sub(currentEpoch, inMemoryEpochs))
          ELSE UNCHANGED <<cachedBlocks, lowestCachedSlot, epochStats>>
    /\ last' = [NoCall EXCEPT !.op = "cleanup"]
    /\ UNCHANGED <<lastHeadBlock, lastHeadRoot, lastProcessedEpoch,
                   validatorsMutex, loader, cacheMutex, outside, pc, poll,
                   procEpoch, events, parentsCached>>

InitCleanup ==
    /\ cachedBlocks = [s \in Slots |-> <<>>]
    /\ lowestCachedSlot = 0
    /\ lastHeadBlock = 0
    /\ lastHeadRoot = NilRoot
    /\ lastProcessedEpoch = 0
    /\ epochStats = [e \in Epochs |-> NoStats]
    /\ validatorsMutex = [e \in Epochs |-> "none"]
    /\ loader = [e \in Epochs |-> "none"]
    /\ cacheMutex = "free"
    /\ epochProcessingDelay = 0
    /\ writeDb = FALSE
    /\ inMemoryEpochs \in 1..MaxInMemoryEpochs
    /\ synchronizer = "nil"
    /\ headEpoch = NoHeadEpoch
    /\ Started
    /\ pc = "insert"
    /\ poll = NoPoll
    /\ procEpoch = 0
    /\ events = 0
    /\ parentsCached = TRUE
    /\ last = NoCall

NextCleanup ==
    \/ ProcessHeadBlock
    \/ ProcessCacheCleanup

SpecCleanup == InitCleanup /\ [][NextCleanup]_vars

\* ------------------------------------------------------------------------
\* The frontend: one goroutine that calls the accessors of lines 90-167
\* while the ingestion loop runs.  The exclusive latch the loop and the
\* loaders take (lines 344, 489, 529) is granted while no reader holds the
\* shared latch, and the shared latch while nobody holds the exclusive one.
\* ------------------------------------------------------------------------
Accessors ==
    {"GetLowestCachedSlot", "GetHeadSlot", "GetCachedBlocks",
     "GetCachedEpochStats", "BuildLiveEpoch", "BuildLiveBlock"}

\* lines 91, 97, 103, 119, 125: cacheMutex.RLock(); BuildLiveBlock (lines
\* 163-167) has none
TakesLatch(op) == op # "BuildLiveBlock"

\* the accessors that read the map cachedBlocks (lines 109, 158, 160)
ReadsCachedBlocks(op) == op \in {"GetCachedBlocks", "BuildLiveEpoch"}

\* the accessors that read the map epochStats (lines 121, 128, 165)
ReadsEpochStats(op) ==
    op \in {"GetCachedEpochStats", "BuildLiveEpoch", "BuildLiveBlock"}

\* an accessor is entered and, if it takes the latch, is granted it
AccessorBegin ==
    /\ reader = NoReader
    /\ pc # "crashed"
    /\ \E op \in Accessors :
         /\ TakesLatch(op) => cacheMutex # "write"
         /\ reader' = [op |-> op, latch |-> TakesLatch(op)]
    /\ UNCHANGED <<cacheVars, lastProcessedEpoch, epochVars, cacheMutex,
                   config, lifecycle, synchronizer, headEpoch, pc, poll,
                   procEpoch, events, parentsCached, last>>

\* the accessor returns; the deferred RUnlock runs
AccessorEnd ==
    /\ reader # NoReader
    /\ reader' = NoReader
    /\ UNCHANGED <<cacheVars, lastProcessedEpoch, epochVars, cacheMutex,
                   config, lifecycle, synchronizer, headEpoch, pc, poll,
                   procEpoch, events, parentsCached, last>>

\* a read-only indexer (writeDb off) without processing delay
InitFrontend ==
    /\ NewIndexer
    /\ Started
    /\ epochProcessingDelay = 0
    /\ ~writeDb

NextFrontend ==
    \/ AccessorBegin
    \/ AccessorEnd
    \/ Next

SpecFrontend == InitFrontend /\ [][NextFrontend]_vars

\* ------------------------------------------------------------------------
\* The start of the indexer: MaxCallers goroutines call Start on a new
\* Indexer, and the goroutine Start creates enters runIndexer and runs it
\* up to the loop (lines 169-204).
\* ------------------------------------------------------------------------
InitStart ==
    /\ NewIndexer
    /\ controlMutex = 0
    /\ running = FALSE
    /\ spawned = 0
    /\ runMutex = 0
    /\ caller = [c \in Callers |-> "idle"]
    /\ reader = NoReader

\* the loaders of the first poll: processHeadEpoch is called without
\* dependent root there, so no loader is started with nil assignments
StartupLoader ==
    \E e \in Epochs :
        LoaderFetchFailed(e) \/ LoaderFetched(e) \/ LoaderStore(e)

NextStart ==
    \/ Start
    \/ RunIndexerEnter
    \/ Boot
    \/ BootPoll
    \/ BackfillError
    \/ BackfillMissed
    \/ BackfillBlock
    \/ InsertPolled
    \/ SyncCheck
    \/ StartupLoader

SpecStart == InitStart /\ [][NextStart]_vars

\* ------------------------------------------------------------------------
\* Vocabulary of the properties
\* ------------------------------------------------------------------------
\* the cached blocks of a cache, as <<slot, index>> positions
Positions(cb) == {p \in Slots \X (1..Cardinality(Universe)) : p[2] <= Len(cb[p[1]])}
\* the processHeadBlock call of the step that led to the current state returned
Returned == last.ret \in {"ok", "dup"}
Inserted == last.ret = "ok"
\* the number of blocks with Orphaned = false at a slot
Canonicals(cb, slot) == {i \in 1..Len(cb[slot]) : ~cb[slot][i].Orphaned}
\* the position of the cached block with this root inside [lowest, high]
Lookup(cb, lowest, high, root) ==
    {p \in Positions(cb) : /\ cb[p[1]][p[2]].Root = root
                           /\ p[1] >= lowest /\ p[1] <= high}
\* the positions visited from `root` following parent roots inside the window
RECURSIVE ChainFrom(_, _, _, _, _)
ChainFrom(cb, lowest, high, root, fuel) ==
    LET here == Lookup(cb, lowest, high, root)
    IN IF fuel = 0 \/ here = {} THEN {}
       ELSE LET p == CHOOSE q \in here : TRUE
            IN {p} \cup ChainFrom(cb, lowest, high, cb[p[1]][p[2]].ParentRoot,
                                  fuel - 1)

\* ------------------------------------------------------------------------
\* C1: after any sequence of processHeadBlock inserts, every block visited
\* from lastHeadRoot along parent roots through the cached blocks of
\* [lowestCachedSlot, lastHeadBlock] has Orphaned = false and is the only
\* block with Orphaned = false at its slot.
\* ------------------------------------------------------------------------
C1_CanonicalChain ==
    Returned =>
        \A p \in ChainFrom(cachedBlocks, lowestCachedSlot, lastHeadBlock,
                           lastHeadRoot, MaxSlot + 2) :
            /\ ~cachedBlocks[p[1]][p[2]].Orphaned
            /\ Canonicals(cachedBlocks, p[1]) = {p[2]}

\* ------------------------------------------------------------------------
\* C2: when the parent of the new head (the reorg-base) is a cached block
\* marked Orphaned and a non-orphaned ancestor of it is cached inside the
\* window, then after processHeadBlock every block on the parent chain from
\* the reorg-base down to that ancestor has Orphaned = false and every other
\* block at those slots has Orphaned = true.
\* ------------------------------------------------------------------------
\* the parent chain of the new head in the cache before the call
BaseChain == ChainFrom(cachedBlocks, lowestCachedSlot', last'.header.Slot,
                       last'.header.ParentRoot, MaxSlot + 2)
\* its blocks that were not orphaned before the call
BaseChainCanonical == {p \in BaseChain : ~cachedBlocks[p[1]][p[2]].Orphaned}
\* the chain from the reorg-base down to the nearest such ancestor
BaseChainSegment ==
    {p \in BaseChain : \A q \in BaseChainCanonical : p[1] >= q[1]}

C2_RecanonicalizeStep ==
    (last'.ret = "ok" /\ last'.baseFound /\ last'.baseOrphaned
        /\ BaseChainCanonical # {})
    => \A p \in Positions(cachedBlocks) :
          (\E q \in BaseChainSegment : q[1] = p[1])
          => (cachedBlocks'[p[1]][p[2]].Orphaned <=> p \notin BaseChainSegment)

\* C2: every step that re-canonicalizes a branch leaves exactly the blocks of
\* that branch with Orphaned = false at their slots
C2_Recanonicalize == [][C2_RecanonicalizeStep]_vars

\* ------------------------------------------------------------------------
\* C3: processHeadBlock with a (slot, root) already in the slot cache changes
\* nothing: the per-slot lists, every Orphaned flag, lowestCachedSlot,
\* lastHeadBlock and lastHeadRoot stay as they are.
\* ------------------------------------------------------------------------
\* the step calls processHeadBlock
Calls == last'.ret # "none"
\* ... with a block whose (slot, root) the cache holds before the call
CallsWithCached ==
    /\ Calls
    /\ \E i \in 1..Len(cachedBlocks[last'.header.Slot]) :
          cachedBlocks[last'.header.Slot][i].Root = last'.header.Root

C3_DuplicateStep == CallsWithCached => UNCHANGED slotCache

\* C3: every call with a cached (slot, root) leaves the slot cache as it was
C3_DuplicateIsNoOp == [][C3_DuplicateStep]_vars

\* a duplicate of a block that is not the first of its slot, arriving when
\* the head has moved on, has been skipped
C3_Witness ==
    /\ last.ret = "dup"
    /\ Len(cachedBlocks[last.header.Slot]) >= 2
    /\ cachedBlocks[last.header.Slot][2].Root = last.header.Root
    /\ lastHeadRoot # last.header.Root

\* ------------------------------------------------------------------------
\* C5: every slot key present in the slot cache is >= lowestCachedSlot.
\* ------------------------------------------------------------------------
C5_KeysAboveWatermark ==
    \A s \in Slots : cachedBlocks[s] # <<>> => s >= lowestCachedSlot

\* ------------------------------------------------------------------------
\* C6: after any sequence of ingestions in which every ingested block found
\* its parent in the cache, no cached slot holds more than one BlockInfo
\* with Orphaned = false.
\* ------------------------------------------------------------------------
C6_OneCanonicalPerSlot ==
    (Returned /\ parentsCached) =>
        \A s \in Slots : Cardinality(Canonicals(cachedBlocks, s)) <= 1

\* ------------------------------------------------------------------------
\* C7: when a new block is inserted whose parent is a cached non-orphaned
\* block at an earlier slot p and differs from lastHeadRoot, then afterwards
\* every cached block at slots in (p, slot] other than the new block, and
\* every other block at slot p, has Orphaned = true; the parent and the new
\* block have Orphaned = false; the flags of the blocks below p are unchanged.
\* ------------------------------------------------------------------------
\* the positions of the canonical parent of the new block before the call
CanonicalParent ==
    {p \in Positions(cachedBlocks) :
        /\ cachedBlocks[p[1]][p[2]].Root = last'.header.ParentRoot
        /\ ~cachedBlocks[p[1]][p[2]].Orphaned
        /\ p[1] < last'.header.Slot}

C7_ReorgStep ==
    (Calls /\ ~CallsWithCached /\ lastHeadRoot # NilRoot
        /\ lastHeadRoot # last'.header.ParentRoot /\ CanonicalParent # {})
    => /\ last'.ret = "ok"
       /\ \A base \in CanonicalParent :
            \A p \in Positions(cachedBlocks') :
               LET b == cachedBlocks'[p[1]][p[2]]
               IN /\ (b.Root = last'.header.Root \/ p = base) => ~b.Orphaned
                  /\ (/\ p[1] >= base[1] /\ p[1] <= last'.header.Slot
                      /\ b.Root # last'.header.Root /\ p # base) => b.Orphaned
                  /\ p[1] < base[1] => b = cachedBlocks[p[1]][p[2]]

\* C7: every insert onto a canonical parent that is not the head orphans
\* what lies between the parent and the new block, and nothing below
C7_OneSlotReorg == [][C7_ReorgStep]_vars

\* scenario S3: a reorg onto a canonical parent has orphaned the sibling at
\* the slot of the parent and a block above it
C7_Witness ==
    /\ last.ret = "ok" /\ last.reorg /\ last.baseFound /\ ~last.baseOrphaned
    /\ \E p \in Positions(cachedBlocks) :
          /\ cachedBlocks[p[1]][p[2]].Root = last.header.ParentRoot
          /\ \E i \in 1..Len(cachedBlocks[p[1]]) :
                i > p[2] /\ cachedBlocks[p[1]][i].Orphaned
          /\ \E s \in Slots : /\ s > p[1] /\ s < last.header.Slot
                              /\ cachedBlocks[s] # <<>>

\* ------------------------------------------------------------------------
\* C8: when processHeadBlock detects a reorg and no cached block in
\* [lowestCachedSlot, slot] has the parent root of the new block,
\* resyncNeeded is raised; likewise when the re-canonicalization walk from an
\* orphaned reorg-base meets no non-orphaned ancestor inside the window.
\* ------------------------------------------------------------------------
\* resyncNeeded is set when the function reaches line 441
ResyncReported == last'.ret = "ok" /\ last'.resyncNeeded

C8_ResyncStep ==
    /\ (/\ Calls /\ ~CallsWithCached
        /\ IsReorg(lastHeadRoot, last'.header)
        /\ Lookup(cachedBlocks, lowestCachedSlot', last'.header.Slot,
                  last'.header.ParentRoot) = {})
       => ResyncReported
    /\ (/\ Calls /\ ~CallsWithCached
        /\ IsReorg(lastHeadRoot, last'.header)
        /\ BaseChain # {} /\ BaseChainCanonical = {})
       => ResyncReported

\* C8: every reorg whose base, or whose canonical ancestor, is not in the
\* window ends with resyncNeeded raised
C8_ResyncRaised == [][C8_ResyncStep]_vars

\* ------------------------------------------------------------------------
\* C4: lastProcessedEpoch never decreases, whatever the loop handles.
\* ------------------------------------------------------------------------
C4_FrontierMonotonic == [][lastProcessedEpoch' >= lastProcessedEpoch]_vars

\* processIndexing has just moved the frontier up to the epoch of the head
\* less the delay
C4_Witness ==
    /\ last.op = "epochProcessed"
    /\ lastProcessedEpoch >= 1
    /\ lastProcessedEpoch = EpochOfSlot(lastHeadBlock) - epochProcessingDelay

\* ------------------------------------------------------------------------
\* C9: when the backfill finds no header for a slot, no cache entry is
\* created for it and the backfill goes on with the next slot; the block
\* ingested next, when its parent root is the root of the last ingested
\* block, is appended with Orphaned = false and no cached block changes.
\* ------------------------------------------------------------------------
C9_MissedSlotStep ==
    /\ last'.op = "backfillMissed"
       => /\ UNCHANGED slotCache
          /\ pc' = "backfill"
          /\ poll' = [poll EXCEPT !.backfillSlot = @ + 1]
    /\ (/\ last.op = "backfillMissed" /\ Calls /\ ~CallsWithCached
        /\ last'.header.ParentRoot = lastHeadRoot)
       => /\ last'.ret = "ok"
          /\ cachedBlocks' =
               [cachedBlocks EXCEPT ![last'.header.Slot] =
                   Append(@, NewBlockInfo(last'.header))]

\* C9: a missed slot leaves the cache alone and the backfill goes on; the
\* successor of the last ingested block is then appended as canonical
C9_MissedSlot == [][C9_MissedSlotStep]_vars

\* scenario S2: the slot below the new block was found missed and holds
\* nothing, the new block sits on the block two slots below and nothing was
\* orphaned
C9_Witness ==
    /\ last.afterMissed /\ last.ret = "ok" /\ ~last.reorg
    /\ last.header.Slot >= 2
    /\ cachedBlocks[last.header.Slot - 1] = <<>>
    /\ \E i \in 1..Len(cachedBlocks[last.header.Slot - 2]) :
          /\ cachedBlocks[last.header.Slot - 2][i].Root = last.header.ParentRoot
          /\ ~cachedBlocks[last.header.Slot - 2][i].Orphaned
    /\ \E s \in Slots : \E i \in 1..Len(cachedBlocks[s]) :
          s > last.header.Slot /\ ~cachedBlocks[s][i].Orphaned

\* ------------------------------------------------------------------------
\* C10: the validators-ready latch of every EpochStats created with the
\* latch held is eventually released, whether the validator-set fetch
\* succeeds or fails, under every interleaving with the ingestion loop
\* (as long as the process lives and processHeadBlock returns).
\* ------------------------------------------------------------------------
C10_LatchReleased ==
    \A e \in Epochs :
        (validatorsMutex[e] = "locked")
            ~> (validatorsMutex[e] = "unlocked" \/ pc \in {"crashed", "hung"})

\* ------------------------------------------------------------------------
\* C11: when the database work of processEpoch(e) fails (the transaction
\* cannot be opened, the persist step reports an error or the commit
\* fails), nothing of epoch e is committed and lastProcessedEpoch keeps
\* its value, so that the epoch is processed again.
\* ------------------------------------------------------------------------
DbFailures ==
    {"beginFailed", "commitFailed", "persistFailedCommitFailed",
     "persistFailedCommitted"}

C11_PersistFailureStep ==
    (last'.op = "epochProcessed" /\ last'.db \in DbFailures)
        => /\ last'.db # "persistFailedCommitted"
           /\ lastProcessedEpoch' = lastProcessedEpoch

C11_PersistFailure == [][C11_PersistFailureStep]_vars

\* ------------------------------------------------------------------------
\* C12: a failed fetch of the ingestion loop (head header, block body,
\* backfill header, epoch assignments, validator set) never ends the
\* process: the loop logs the error and goes on with the next event.  The
\* two ways a failed fetch can end it are the nil dereferences of the
\* assignments a failed GetEpochAssignments left behind.
\* ------------------------------------------------------------------------
C12_FetchFailureSurvived ==
    ~(pc = "crashed" /\ last.op \in {"assignmentsPanic", "loaderPanic"})

\* ------------------------------------------------------------------------
\* C13: a failed fetch of one block of the backfill changes the Orphaned
\* flag of no cached block, neither at once nor when the block that
\* follows (a backfilled block or the polled head) is inserted.  The second
\* part is stated for the case in which the block that was not fetched
\* links the head to the block that follows, so that no flag would have
\* changed had the fetch succeeded.
\* ------------------------------------------------------------------------
FlagsKept ==
    \A s \in Slots : \A i \in 1..Len(cachedBlocks[s]) :
        cachedBlocks'[s][i].Orphaned = cachedBlocks[s][i].Orphaned

\* the block at the slot whose fetch failed is the successor of the head
\* and the parent of header
LinkedByFailed(header) ==
    \E p \in Served :
        /\ p.Slot = poll.backfillSlot - 1
        /\ p.ParentRoot = lastHeadRoot
        /\ p.Root = header.ParentRoot

C13_BackfillErrorStep ==
    /\ (last'.op = "backfillError" => cachedBlocks' = cachedBlocks)
    /\ (/\ last.op = "backfillError"
        /\ last'.op \in {"backfill", "head", "block"}
        /\ last'.ret # "dup"
        /\ LinkedByFailed(last'.header))
           => FlagsKept

C13_BackfillErrorNoTaint == [][C13_BackfillErrorStep]_vars

\* ------------------------------------------------------------------------
\* C14: at most one ingestion loop per Indexer.  Start creates one
\* goroutine at most, whatever the interleaving of the calls; a call that
\* finds the indexer running returns an error and creates none; once every
\* caller has returned, exactly one of them got nil and one loop exists.
\* ------------------------------------------------------------------------
StartedBy(result) == {c \in Callers : caller[c] = result}

C14_OneLoop ==
    /\ spawned <= 1
    /\ runMutex <= spawned
    /\ Cardinality(StartedBy("nil")) = spawned
    /\ (StartedBy("error") # {} => running /\ spawned = 1)
    /\ (StartedBy("passed") # {} => ~running /\ spawned = 0)
    /\ (StartedBy("nil") \cup StartedBy("error") = Callers => spawned = 1)
    /\ (pc # "boot" => runMutex = 1)

\* every caller has returned: one with nil, the others with the error, and
\* the one loop has run its bootstrap
C14_Witness ==
    /\ Cardinality(StartedBy("nil")) = 1
    /\ Cardinality(StartedBy("error")) = MaxCallers - 1
    /\ MaxCallers >= 2
    /\ runMutex = 1
    /\ pc = "bootPoll"

\* ------------------------------------------------------------------------
\* C15: a frontend accessor reads the maps cachedBlocks and epochStats
\* while it holds the shared latch, so that the map an accessor is reading
\* is not written by the ingestion loop or a loader during the read.
\* ------------------------------------------------------------------------
C15_ReadStep ==
    (reader.op # "none" /\ reader' = reader)
        => /\ ReadsCachedBlocks(reader.op) => cachedBlocks' = cachedBlocks
           /\ ReadsEpochStats(reader.op) => epochStats' = epochStats

C15_ReadsUnderLatch == [][C15_ReadStep]_vars

\* ------------------------------------------------------------------------
\* C16: every epoch that has an entry in the map epochStats is at or above
\* lastProcessedEpoch.
\* ------------------------------------------------------------------------
C16_StatsAboveFrontier ==
    \A e \in Epochs : epochStats[e] # NoStats => e >= lastProcessedEpoch

\* ------------------------------------------------------------------------
\* C17: a cleanup pass with threshold
\* T = (epochOf(lastHeadBlock) - inMemoryEpochs + 1) * SlotsPerEpoch leaves
\* lowestCachedSlot >= T, makes GetCachedBlocks return nothing below T and
\* removes no slot at or above T.
\* ------------------------------------------------------------------------
ThresholdT == (EpochOfSlot(lastHeadBlock) - inMemoryEpochs + 1) * SlotsPerEpoch

C17_CleanupStep ==
    last'.op = "cleanup"
        => /\ lowestCachedSlot' >= ThresholdT
           /\ \A s \in Slots :
                 s < ThresholdT
                    => GetCachedBlocks(cachedBlocks', lowestCachedSlot', s) = <<>>
           /\ \A s \in Slots :
                 s >= ThresholdT => cachedBlocks'[s] = cachedBlocks[s]

C17_CleanupThreshold == [][C17_CleanupStep]_vars

\* ------------------------------------------------------------------------
\* C18: the BlockInfo entries of one slot have pairwise different roots,
\* after any sequence of inserts.
\* ------------------------------------------------------------------------
C18_DistinctRoots ==
    \A s \in Slots : \A i, j \in 1..Len(cachedBlocks[s]) :
        cachedBlocks[s][i].Root = cachedBlocks[s][j].Root => i = j

\* a slot holds two blocks and the first of them has just been offered again
C18_Witness ==
    /\ last.op = "insert" /\ last.ret = "dup"
    /\ Len(cachedBlocks[last.header.Slot]) = 2
    /\ cachedBlocks[last.header.Slot][1].Root = last.header.Root
    /\ cachedBlocks[last.header.Slot][2].Root # last.header.Root

\* ------------------------------------------------------------------------
\* C19: before the loop starts, the synchronizer is started if and only if
\* writeDb is set and the persisted syncState.epoch is strictly below
\* lastProcessedEpoch.
\* ------------------------------------------------------------------------
C19_SyncStep ==
    (pc = "syncCheck" /\ pc' = "loop")
        => /\ last'.op = "syncCheck"
           /\ last'.sync = "started"
                 <=> (writeDb /\ last'.syncEpoch < lastProcessedEpoch')

C20_HeadBlockReturns ==
    /\ pc # "hung"
    /\ last.ret # "hung"
    /\ cacheMutex # "write"

\* ------------------------------------------------------------------------
\* C21: processEpoch never holds the shared cache latch waiting for the
\* validators-ready latch of its epoch while the loadEpochStats goroutine
\* of that epoch holds validators-ready and waits for the exclusive cache
\* latch.
\* ------------------------------------------------------------------------
C21_NoLatchCycle ==
    ~(/\ pc = "epochWait"
      /\ cacheMutex = "read"
      /\ validatorsMutex[procEpoch] = "locked"
      /\ loader[procEpoch] = "lock")


\* C22: processIndexing invokes processEpoch for every epoch of
\* (lastProcessedEpoch, processEpoch] in ascending order: the epoch it
\* hands to processEpoch is the one right after the frontier, so no epoch is
\* skipped when the head advances by more than one epoch.
C22_IndexingStep ==
    (pc = "indexing" /\ pc' = "epochWait")
        => procEpoch' = lastProcessedEpoch + 1

C22_NoEpochSkipped == [][C22_IndexingStep]_vars

\* C23: when the epoch handed to processEpoch has no cached block that is
\* not orphaned, processEpoch returns without persisting and the frontier
\* lastProcessedEpoch is not advanced to that epoch.
C23_NoTargetStep ==
    (pc = "epochWait" /\ last'.op = "epochProcessed"
                      /\ last'.db = "noTarget")
        => lastProcessedEpoch' # procEpoch

C23_NoTargetKeepsFrontier == [][C23_NoTargetStep]_vars


\* C24: processEpoch sets the persisted sync-state checkpoint to its epoch
\* only when the synchronizer is absent or not running, and only in a
\* committed transaction in which the data of the epoch was written; the
\* checkpoint is never advanced when persisting the epoch's data failed.
C24_CheckpointStep ==
    (pc = "epochWait" /\ last'.op = "epochProcessed" /\ last'.checkpoint)
        => /\ synchronizer # "running"
           /\ last'.db = "committed"

C24_CheckpointAfterData == [][C24_CheckpointStep]_vars


\* the step is processIndexing calling processEpoch (a panic of a loader
\* goroutine, which also ends the process, leaves its mark in last)
CallsProcessEpoch ==
    /\ pc = "indexing"
    /\ pc' \in {"epochWait", "crashed"}
    /\ last'.op = "none"

\* C25: processIndexing never calls processEpoch with an epoch beyond
\* epochOf(lastHeadBlock): when epochOf(lastHeadBlock) is below
\* epochProcessingDelay the subtraction does not wrap and no epoch is
\* processed.
C25_IndexingStep ==
    CallsProcessEpoch
        => /\ EpochOfSlot(lastHeadBlock) >= epochProcessingDelay
           /\ Uint64Sub(EpochOfSlot(lastHeadBlock), epochProcessingDelay)
                 <= EpochOfSlot(lastHeadBlock)

C25_NoWrap == [][C25_IndexingStep]_vars


\* C26: whenever processIndexing calls processEpoch(e), the epoch-stats
\* cache holds an EpochStats entry for e (stated for the epochs the
\* subtraction of line 548 reaches without wrapping).
C26_IndexingStep ==
    LET processEpoch == Uint64Sub(EpochOfSlot(lastHeadBlock),
                                  epochProcessingDelay)
    IN (CallsProcessEpoch /\ processEpoch \in Epochs)
          => epochStats[processEpoch] # NoStats

C26_StatsExist == [][C26_IndexingStep]_vars


\* C27: when the assignments fetch of epoch e has failed, a later event
\* that names e fetches them again, so that Assignments gets set.  Stated
\* at every state in which the failed fetch has left an EpochStats without
\* assignments and no goroutine is about to dereference them: the next
\* call of processHeadEpoch for e, from a poll (nil dependentRoot) or from a
\* head event with the dependent root of the entry, sets Assignments when
\* its fetch succeeds.
C27_FetchRetried ==
    \A e \in Epochs :
        (/\ pc \notin {"crashed", "hung"}
         /\ epochStats[e] # NoStats
         /\ epochStats[e].Assignments = "nil"
         /\ loader[e] # "nilAssignments")
            => \A dep \in {NilRoot, epochStats[e].dependendRoot} :
                 ProcessHeadEpochOn(epochStats, validatorsMutex, loader,
                                    lastProcessedEpoch, e, dep, TRUE)
                     .epochStats[e].Assignments = "set"


\* ------------------------------------------------------------------------
\* processHeadEpoch line by line (lines 452-486 and newEpochStats,
\* 488-518): every sequence of calls, for every frontier, next to the
\* loadEpochStats goroutines the calls start.  The EpochStats that
\* newEpochStats has put into the map is in the cache, with its
\* AssignmentsMutex held, while the assignments are fetched.
\* ------------------------------------------------------------------------

\* a test that lets the epoch right below the frontier through
IsProcessedBelow(epoch, lpe) == epoch + 1 < lpe

\* line 492
IsProcessed(epoch, lpe) == epoch < lpe

\* line 496
SameDependentRoot(old, dependentRoot) ==
    old # NoStats /\ old.dependendRoot = dependentRoot

\* an EpochStats whose AssignmentsMutex nobody took
NewStatsUnlocked(dependentRoot) ==
    [dependendRoot |-> dependentRoot, Assignments |-> "absent",
     AssignmentsMutex |-> "unlocked"]

\* lines 501-503
NewStats(dependentRoot) ==
    [dependendRoot |-> dependentRoot, Assignments |-> "absent",
     AssignmentsMutex |-> "locked"]

\* a loadStats that is true for a replacement too
LoadStatsAlways(old) == TRUE

\* line 517: the second result of newEpochStats
LoadStats(old) == old = NoStats

\* lines 479-480
AssignmentsWritten(stats, assignments) ==
    [stats EXCEPT !.Assignments = assignments, !.AssignmentsMutex = "unlocked"]

\* what headEpoch holds once the call has returned or panicked
HeadEpochReturned(epoch, dependentRoot) ==
    [NoHeadEpoch EXCEPT !.at = "returned", !.epoch = epoch,
                        !.dependentRoot = dependentRoot]

\* lines 452-470: up to the return of newEpochStats.  fetchOk is the
\* outcome of the fetch of line 459, made when dependentRoot is nil and the
\* epoch has no entry.
HeadEpochCall ==
    /\ pc = "headEpoch"
    /\ headEpoch.at # "line472"
    /\ cacheMutex = "free"
    /\ ~reader.latch
    /\ \E epoch \in Epochs, dependentRoot \in DepRoots \cup {NilRoot},
          fetchOk \in BOOLEAN :
         LET old == epochStats[epoch]
             fetched == IF dependentRoot = NilRoot
                        THEN GetEpochAssignments(fetchOk) ELSE "absent"
             root == IF dependentRoot = NilRoot
                     THEN AssignmentsDependendRoot ELSE dependentRoot
         IN IF dependentRoot = NilRoot /\ old # NoStats
            THEN \* lines 454-457
                 /\ headEpoch' = HeadEpochReturned(epoch, dependentRoot)
                 /\ last' = NoCall
                 /\ UNCHANGED <<epochStats, validatorsMutex, pc>>
            ELSE IF fetched = "nil"
            THEN \* line 463
                 /\ headEpoch' = HeadEpochReturned(epoch, dependentRoot)
                 /\ pc' = "crashed"
                 /\ last' = [NoCall EXCEPT !.op = "assignmentsPanic"]
                 /\ UNCHANGED <<epochStats, validatorsMutex>>
            ELSE IF \/ IsProcessed(epoch, lastProcessedEpoch)
                    \/ SameDependentRoot(old, root)
            THEN \* lines 492-498 and 467-469
                 /\ headEpoch' = HeadEpochReturned(epoch, dependentRoot)
                 /\ last' = NoCall
                 /\ UNCHANGED <<epochStats, validatorsMutex, pc>>
            ELSE \* lines 499-517
                 /\ epochStats' = [epochStats EXCEPT ![epoch] = NewStats(root)]
                 /\ validatorsMutex' =
                      IF old = NoStats
                      THEN [validatorsMutex EXCEPT ![epoch] = "locked"]
                      ELSE validatorsMutex
                 /\ headEpoch' = [at |-> "line472", epoch |-> epoch,
                                  dependentRoot |-> dependentRoot,
                                  assignments |-> fetched,
                                  loadStats |-> LoadStats(old)]
                 /\ last' = NoCall
                 /\ UNCHANGED pc
    /\ UNCHANGED <<cacheVars, lastProcessedEpoch, loader, cacheMutex,
                   config, lifecycle, reader, synchronizer, poll, procEpoch,
                   events>>

\* lines 472-485: the fetch of line 474 when line 459 made none, the write
\* of the assignments, the release of the AssignmentsMutex and the go
\* statement
HeadEpochWrite ==
    /\ pc = "headEpoch"
    /\ headEpoch.at = "line472"
    /\ \E fetchOk \in BOOLEAN :
         LET epoch == headEpoch.epoch
             assignments == IF headEpoch.assignments = "absent"
                            THEN GetEpochAssignments(fetchOk)
                            ELSE headEpoch.assignments
         IN /\ epochStats' =
                 [epochStats EXCEPT
                    ![epoch] = AssignmentsWritten(@, assignments)]
            /\ loader' =
                 IF headEpoch.loadStats
                 THEN [loader EXCEPT ![epoch] =
                         IF assignments = "nil" THEN "nilAssignments"
                         ELSE "fetch"]
                 ELSE loader
            /\ headEpoch' = [headEpoch EXCEPT !.at = "returned",
                                              !.assignments = assignments]
    /\ last' = NoCall
    /\ UNCHANGED <<cacheVars, lastProcessedEpoch, validatorsMutex,
                   cacheMutex, config, lifecycle, reader, synchronizer, pc,
                   poll, procEpoch, events>>

InitHeadEpoch ==
    /\ cachedBlocks = [s \in Slots |-> <<>>]
    /\ lowestCachedSlot = 0
    /\ lastHeadBlock = 0
    /\ lastHeadRoot = NilRoot
    /\ lastProcessedEpoch \in Epochs
    /\ epochStats = [e \in Epochs |-> NoStats]
    /\ validatorsMutex = [e \in Epochs |-> "none"]
    /\ loader = [e \in Epochs |-> "none"]
    /\ cacheMutex = "free"
    /\ epochProcessingDelay = 0
    /\ writeDb = FALSE
    /\ inMemoryEpochs = InMemoryEpochs
    /\ synchronizer = "nil"
    /\ headEpoch = NoHeadEpoch
    /\ Started
    /\ pc = "headEpoch"
    /\ poll = NoPoll
    /\ procEpoch = 0
    /\ events = 0
    /\ parentsCached = TRUE
    /\ last = NoCall

NextHeadEpoch ==
    \/ HeadEpochCall
    \/ HeadEpochWrite
    \/ Loader

SpecHeadEpoch == InitHeadEpoch /\ [][NextHeadEpoch]_vars


\* the step is processHeadEpoch called and taken up to the return of
\* newEpochStats; headEpoch' holds its arguments
HeadEpochCalled ==
    /\ pc = "headEpoch"
    /\ headEpoch.at # "line472"
    /\ headEpoch' # headEpoch

\* C28: processHeadEpoch(epoch, dependentRoot) leaves the epoch-stats cache
\* as it is and starts no validator-set fetch when epoch is below
\* lastProcessedEpoch, when the epoch has an entry with the same
\* dependentRoot, or, called without dependentRoot, when the epoch has an
\* entry.
C28_CallStep ==
    LET epoch == headEpoch'.epoch
        dependentRoot == headEpoch'.dependentRoot
        old == epochStats[epoch]
    IN (/\ HeadEpochCalled
        /\ \/ epoch < lastProcessedEpoch
           \/ old # NoStats /\ dependentRoot = old.dependendRoot
           \/ old # NoStats /\ dependentRoot = NilRoot)
          => /\ epochStats' = epochStats
             /\ validatorsMutex' = validatorsMutex
             /\ loader' = loader
             /\ headEpoch'.at = "returned"

C28_NoActionOnKnownEpoch == [][C28_CallStep]_vars

\* a call with a dependent root for an epoch below the frontier has
\* returned; the epoch has no entry while another epoch has one
C28_Witness ==
    /\ headEpoch.at = "returned"
    /\ headEpoch.dependentRoot # NilRoot
    /\ headEpoch.epoch < lastProcessedEpoch
    /\ epochStats[headEpoch.epoch] = NoStats
    /\ \E e \in Epochs : epochStats[e] # NoStats

\* C29: for each epoch at most one validator-set fetch task is launched
\* while its EpochStats stays cached: the go statement of processHeadEpoch
\* runs only for an epoch no task was launched for, and an EpochStats that
\* replaces another keeps the Validators (and the validators-ready latch)
\* of the one it replaces.
C29_FetchStep ==
    /\ (/\ pc = "headEpoch"
        /\ headEpoch.at = "line472"
        /\ headEpoch'.at = "returned"
        /\ headEpoch.loadStats)
          => loader[headEpoch.epoch] = "none"
    /\ (/\ HeadEpochCalled
        /\ headEpoch'.at = "line472"
        /\ epochStats[headEpoch'.epoch] # NoStats)
          => /\ validatorsMutex' = validatorsMutex
             /\ ~headEpoch'.loadStats

C29_OneFetchTask == [][C29_FetchStep]_vars

\* a head event has replaced the EpochStats of an epoch whose task was
\* launched before: the call wrote the assignments and started no task
C29_Witness ==
    /\ headEpoch.at = "returned"
    /\ headEpoch.assignments # "absent"
    /\ ~headEpoch.loadStats
    /\ headEpoch.dependentRoot # NilRoot
    /\ epochStats[headEpoch.epoch].dependendRoot = headEpoch.dependentRoot
    /\ loader[headEpoch.epoch] # "none"

\* C30: the Assignments of an EpochStats are written once, from absent to
\* their final value, and the AssignmentsMutex taken at creation is
\* released only after that write: an entry whose AssignmentsMutex is free
\* has its assignments, and they change no more as long as the entry is not
\* replaced by a new EpochStats (which is created with the latch held).
C30_AssignmentsStep ==
    \A e \in Epochs :
        /\ (epochStats'[e] # NoStats
              /\ epochStats'[e].AssignmentsMutex = "unlocked")
             => epochStats'[e].Assignments # "absent"
        /\ (epochStats[e].Assignments # "absent"
              /\ epochStats'[e].AssignmentsMutex = "unlocked")
             => epochStats'[e].Assignments = epochStats[e].Assignments

C30_AssignmentsFinal == [][C30_AssignmentsStep]_vars

\* the assignments of an EpochStats were written and its latch released,
\* and the loader of the epoch has gone on since
C30_Witness ==
    /\ headEpoch.at = "returned"
    /\ headEpoch.loadStats
    /\ epochStats[headEpoch.epoch].Assignments = headEpoch.assignments
    /\ epochStats[headEpoch.epoch].Assignments # "absent"
    /\ epochStats[headEpoch.epoch].AssignmentsMutex = "unlocked"
    /\ loader[headEpoch.epoch] = "done"


\* ------------------------------------------------------------------------
\* The polls of the loop on their own: timer, stream-closed and block
\* events on an indexer without persistence whose boot poll fetched
\* nothing, with processIndexing after each event and the loaders.
\* ------------------------------------------------------------------------
InitPolls ==
    /\ cachedBlocks = [s \in Slots |-> <<>>]
    /\ lowestCachedSlot = 0
    /\ lastHeadBlock = 0
    /\ lastHeadRoot = NilRoot
    /\ lastProcessedEpoch = 0
    /\ epochStats = [e \in Epochs |-> NoStats]
    /\ validatorsMutex = [e \in Epochs |-> "none"]
    /\ loader = [e \in Epochs |-> "none"]
    /\ cacheMutex = "free"
    /\ epochProcessingDelay \in 0..MaxDelay
    /\ writeDb = FALSE
    /\ inMemoryEpochs = InMemoryEpochs
    /\ synchronizer = "nil"
    /\ headEpoch = NoHeadEpoch
    /\ Started
    /\ pc = "loop"
    /\ poll = NoPoll
    /\ procEpoch = 0
    /\ events = 0
    /\ parentsCached = TRUE
    /\ last = NoCall

NextPolls ==
    \/ TimerOrCloseEvent
    \/ BlockEvent
    \/ BackfillError
    \/ BackfillMissed
    \/ BackfillBlock
    \/ InsertPolled
    \/ ProcessIndexing
    \/ ProcessEpochDone
    \/ StartupLoader

SpecPolls == InitPolls /\ [][NextPolls]_vars

\* C31: when pollHeadBlock or pollStreamedBlock has fetched a block at slot
\* h with h - lastHeadBlock > 1, pollBackfillBlock is called for every slot
\* of [lastHeadBlock+1, h), in ascending order, before the block at h is
\* inserted: the backfill starts at lastHeadBlock+1, each call takes the
\* next slot and inserts a block of that slot only, and the polled block is
\* inserted when the backfill has reached h (or was not begun).
C31_PollStep ==
    /\ (pc \in {"bootPoll", "loop"} /\ pc' = "backfill"
          /\ poll'.header.Slot - lastHeadBlock > 1)
         => poll'.backfillSlot = lastHeadBlock + 1
    /\ (pc = "backfill" /\ last'.op \in {"backfill", "backfillError",
                                         "backfillMissed"})
         => /\ poll.backfillSlot < poll.header.Slot
            /\ last'.op = "backfill" => last'.header.Slot = poll.backfillSlot
            /\ pc' = "backfill" => /\ poll'.backfillSlot = poll.backfillSlot + 1
                                   /\ poll'.header = poll.header
    /\ (pc = "backfill" /\ last'.op \in {"head", "stream"})
         => /\ poll.backfillSlot >= poll.header.Slot
            /\ last'.header = poll.header

C31_BackfillInOrder == [][C31_PollStep]_vars

\* a block event two slots or more ahead of the head: the backfill has
\* inserted the blocks of the two slots before the streamed block, which
\* comes next
C31_Witness ==
    /\ pc = "backfill"
    /\ poll.kind = "stream"
    /\ poll.header.Slot >= 3
    /\ poll.backfillSlot = poll.header.Slot
    /\ last.op = "backfill"
    /\ last.header.Slot = poll.header.Slot - 1
    /\ cachedBlocks[poll.header.Slot - 2] # <<>>
    /\ cachedBlocks[poll.header.Slot] = <<>>


\* slot s holds blocks and lies below the watermark of the cleanup
BelowWatermark(s) ==
    /\ cachedBlocks[s] # <<>>
    /\ s < (EpochOfSlot(lastHeadBlock) - inMemoryEpochs + 1) * SlotsPerEpoch

\* no step of the loop, of processIndexing or of a loader takes a block
\* out of the slot cache
CacheNeverShrinks ==
    [][\A s \in Slots : Len(cachedBlocks'[s]) >= Len(cachedBlocks[s])]_vars

\* C32: cached blocks are eventually dropped: once a cached slot s lies
\* below (epochOf(lastHeadBlock) - inMemoryEpochs + 1) * SlotsPerEpoch, a
\* cleanup pass of the ingestion loop removes the blocks of slot s.  Stated
\* from the states in which the loop has handled an event in full and
\* waits for the next one.
C32_EventuallyDropped ==
    \A s \in Slots :
        (pc = "loop" /\ BelowWatermark(s)) ~> (cachedBlocks[s] = <<>>)


\* ------------------------------------------------------------------------
\* The epoch target of processEpoch (lines 586-616) and of BuildLiveEpoch
\* (lines 124-161), each computed as its loop computes it.  cb is the map
\* cachedBlocks; a slot without key reads as nil and is skipped.  NilRoot
\* stands for a nil epochTarget and for the nil *dbtypes.Epoch.
\* ------------------------------------------------------------------------

\* lines 586 and 134
FirstSlotOf(epoch) == epoch * SlotsPerEpoch
\* lines 587 and 135
LastSlotOf(epoch) == FirstSlotOf(epoch) + SlotsPerEpoch - 1

\* lines 596-612: the loop of processEpoch from cb[slot][bidx] on
RECURSIVE EpochTargetFrom(_, _, _, _, _)
EpochTargetFrom(cb, firstSlot, lastSlot, slot, bidx) ==
    IF slot > lastSlot THEN NilRoot
    ELSE IF slot \notin DOMAIN cb \/ bidx > Len(cb[slot])
    THEN EpochTargetFrom(cb, firstSlot, lastSlot, slot + 1, 1)
    ELSE IF ~cb[slot][bidx].Orphaned
    THEN IF slot = firstSlot THEN cb[slot][bidx].Root
         ELSE cb[slot][bidx].ParentRoot
    ELSE EpochTargetFrom(cb, firstSlot, lastSlot, slot, bidx + 1)

\* lines 594-612
EpochTarget(cb, epoch) ==
    EpochTargetFrom(cb, FirstSlotOf(epoch), LastSlotOf(epoch),
                    FirstSlotOf(epoch), 1)

\* a nil *BlockInfo
NoBlock == [Slot |-> 0, Root |-> NilRoot, ParentRoot |-> NilRoot,
            Orphaned |-> FALSE]

\* a test that takes any entry of a slot
IsLiveEntryAny(block) == TRUE

\* line 140
IsLiveEntry(block) == ~block.Orphaned

\* lines 137-147: the loop of BuildLiveEpoch from cb[slot][bidx] on
RECURSIVE FirstBlockFrom(_, _, _, _)
FirstBlockFrom(cb, lastSlot, slot, bidx) ==
    IF slot > lastSlot THEN NoBlock
    ELSE IF slot \notin DOMAIN cb \/ bidx > Len(cb[slot])
    THEN FirstBlockFrom(cb, lastSlot, slot + 1, 1)
    ELSE IF IsLiveEntry(cb[slot][bidx]) THEN cb[slot][bidx]
    ELSE FirstBlockFrom(cb, lastSlot, slot, bidx + 1)

\* lines 151-156
LiveTargetRoot(firstBlock, firstSlot) ==
    IF firstBlock.Slot = firstSlot THEN firstBlock.Root
    ELSE firstBlock.ParentRoot

\* lines 128-157: the target root the Epoch that BuildLiveEpoch returns is
\* built with, NilRoot when it returns nil
BuildLiveEpoch(es, cb, epoch) ==
    IF es[epoch] = NoStats THEN NilRoot
    ELSE IF FirstBlockFrom(cb, LastSlotOf(epoch), FirstSlotOf(epoch), 1)
               = NoBlock
    THEN NilRoot
    ELSE LiveTargetRoot(FirstBlockFrom(cb, LastSlotOf(epoch),
                                       FirstSlotOf(epoch), 1),
                        FirstSlotOf(epoch))

\* the polls of the loop next to the accessors of the frontend
NextLive ==
    \/ AccessorBegin
    \/ AccessorEnd
    \/ NextPolls

SpecLive == InitPolls /\ [][NextLive]_vars

\* the non-orphaned entries of the epoch, as <<slot, index>>
CanonicalEntries(e) ==
    {p \in (Slots \X (1..MaxSlot + 1)) :
        /\ EpochOfSlot(p[1]) = e
        /\ p[2] <= Len(cachedBlocks[p[1]])
        /\ ~cachedBlocks[p[1]][p[2]].Orphaned}

\* the first of them in the order of the scan
FirstCanonical(e) ==
    CHOOSE p \in CanonicalEntries(e) :
        \A q \in CanonicalEntries(e) :
            p[1] < q[1] \/ (p[1] = q[1] /\ p[2] <= q[2])

\* b.root if b is at firstSlot, otherwise b.parentRoot
TargetOfFirstCanonical(e) ==
    LET p == FirstCanonical(e)
        b == cachedBlocks[p[1]][p[2]]
    IN IF p[1] = e * SlotsPerEpoch THEN b.Root ELSE b.ParentRoot

\* C33: in every cache state processEpoch(e) and BuildLiveEpoch(e) pick the
\* same target root, that of the first non-orphaned block b of the slots of
\* e in ascending order (b.root if b is at firstSlot, otherwise
\* b.parentRoot); processEpoch finds no target when e has no such block, and
\* BuildLiveEpoch returns nothing when e has no EpochStats or no such block.
C33_SameTarget ==
    \A e \in Epochs :
        /\ CanonicalEntries(e) = {}
             => /\ EpochTarget(cachedBlocks, e) = NilRoot
                /\ BuildLiveEpoch(epochStats, cachedBlocks, e) = NilRoot
                /\ ~EpochTargetFound(cachedBlocks, e)
        /\ CanonicalEntries(e) # {}
             => /\ EpochTarget(cachedBlocks, e) = TargetOfFirstCanonical(e)
                /\ EpochTargetFound(cachedBlocks, e)
                /\ BuildLiveEpoch(epochStats, cachedBlocks, e) =
                      IF epochStats[e] = NoStats THEN NilRoot
                      ELSE TargetOfFirstCanonical(e)

\* BuildLiveEpoch is in progress while an epoch with EpochStats has an
\* orphaned block at its first slot and its first canonical block at the
\* next: the target is the parent root of that block
C33_Witness ==
    /\ reader.op = "BuildLiveEpoch"
    /\ \E e \in Epochs :
         /\ epochStats[e] # NoStats
         /\ cachedBlocks[FirstSlotOf(e)] # <<>>
         /\ \A i \in 1..Len(cachedBlocks[FirstSlotOf(e)]) :
               cachedBlocks[FirstSlotOf(e)][i].Orphaned
         /\ CanonicalEntries(e) # {}
         /\ BuildLiveEpoch(epochStats, cachedBlocks, e) =
               cachedBlocks[FirstSlotOf(e) + 1][1].ParentRoot
         /\ BuildLiveEpoch(epochStats, cachedBlocks, e) # NilRoot


\* ------------------------------------------------------------------------
\* The loop with its test of the running flag (lines 206-239), next to
\* callers that start and stop the indexer.  The loop followed here is the
\* one the first Start created; "loop" is the head of an iteration,
\* "select" the wait of line 214, "exited" the return of runIndexer.
\* ------------------------------------------------------------------------

\* lines 207-212: the flag is read under controlMutex; a cleared flag
\* breaks the loop, and the return of runIndexer releases runMutex (line 171)
LoopTest ==
    /\ pc = "loop"
    /\ MutexFree(controlMutex)
    /\ IF running
       THEN /\ pc' = "select"
            /\ UNCHANGED runMutex
       ELSE /\ pc' = "exited"
            /\ runMutex' = 0
    /\ UNCHANGED <<cacheVars, lastProcessedEpoch, epochVars, cacheMutex,
                   config, synchronizer, headEpoch, controlMutex, running,
                   spawned, caller, reader, poll, procEpoch, events, last>>

\* the stop request, for which the sources hold no code: caller c clears
\* the running flag under controlMutex
Stop ==
    \E c \in Callers :
        /\ caller[c] = "idle"
        /\ MutexFree(controlMutex)
        /\ running' = FALSE
        /\ caller' = [caller EXCEPT ![c] = "stopped"]
        /\ UNCHANGED <<cacheVars, lastProcessedEpoch, epochVars, cacheMutex,
                       config, synchronizer, headEpoch, controlMutex,
                       spawned, runMutex, reader, pc, poll, procEpoch,
                       events, last>>

\* the indexer of InitPolls at the head of an iteration; of the callers,
\* two are still to call, the others have called Start on the running
\* indexer and got its error
InitStop ==
    /\ cachedBlocks = [s \in Slots |-> <<>>]
    /\ lowestCachedSlot = 0
    /\ lastHeadBlock = 0
    /\ lastHeadRoot = NilRoot
    /\ lastProcessedEpoch = 0
    /\ epochStats = [e \in Epochs |-> NoStats]
    /\ validatorsMutex = [e \in Epochs |-> "none"]
    /\ loader = [e \in Epochs |-> "none"]
    /\ cacheMutex = "free"
    /\ epochProcessingDelay = 0
    /\ writeDb = FALSE
    /\ inMemoryEpochs = InMemoryEpochs
    /\ synchronizer = "nil"
    /\ headEpoch = NoHeadEpoch
    /\ controlMutex = 0
    /\ running = TRUE
    /\ spawned = 1
    /\ runMutex = 1
    /\ caller = [c \in Callers |-> IF c <= 2 THEN "idle" ELSE "error"]
    /\ reader = NoReader
    /\ pc = "loop"
    /\ poll = NoPoll
    /\ procEpoch = 0
    /\ events = 0
    /\ parentsCached = TRUE
    /\ last = NoCall

NextStop ==
    \/ LoopTest
    \/ TimerOrCloseEventAt("select")
    \/ BlockEventAt("select")
    \/ HeadEventAt("select")
    \/ BackfillError
    \/ BackfillMissed
    \/ BackfillBlock
    \/ InsertPolled
    \/ ProcessIndexing
    \/ ProcessEpochDone
    \/ Loader
    \/ Start
    \/ Stop

SpecStop == InitStop /\ [][NextStop]_vars

\* some caller has cleared the running flag
Stopped == \E c \in Callers : caller[c] = "stopped"

\* the loop leaves the head of an iteration: the flag has been tested
FlagTested == pc = "loop" /\ pc' \in {"select", "exited"}

\* as long as no Start has set the flag again, the test that follows a stop
\* request ends the loop
StopsUnlessRestarted ==
    [][(FlagTested /\ Stopped /\ spawned = 1) => pc' = "exited"]_vars

\* the loop comes back to the head of an iteration only out of
\* processIndexing, and handles no event once it has returned
IndexingAfterEveryEvent ==
    [][/\ (pc' = "loop" /\ pc # "loop") => pc \in {"indexing", "epochWait"}
       /\ pc = "exited" => events' = events]_vars

\* C34: the loop comes back to the head of an iteration only out of
\* processIndexing, so processIndexing runs after every event; and once the
\* running flag has been cleared, the loop finishes at most the event in
\* progress or the one it waits for, so that the next test of the flag ends
\* the loop, which handles no event afterwards.
C34_LoopStep ==
    /\ (pc' = "loop" /\ pc # "loop") => pc \in {"indexing", "epochWait"}
    /\ (pc = "select" /\ pc' # "select") => pc' # "loop"
    /\ (FlagTested /\ Stopped) => pc' = "exited"
    /\ pc = "exited" => events' = events
C34_StopEndsLoop == [][C34_LoopStep]_vars

====
